---- MODULE Spec2Model ----
(***************************************************************************)
(* JCL attribute resolution (src/tools/Jcl.py): the file read of           *)
(* JCLParser._load_and_parse, the normalizer JCLParser._normalize_jcl, the *)
(* statement parser JCLParser._parse_lines, the sibling-row index          *)
(* AttributeResolver.__init__, the rule chain AttributeResolver.resolve and *)
(* the pass of main over the rows of one script.                           *)
(*                                                                         *)
(* A logical statement is a record of the pieces the parser's regular      *)
(* expressions look at: the identifier after the // marker, the operation  *)
(* keyword, and for every keyword parameter the text that follows "KEY="   *)
(* as a sequence of tokens (<<>> when the statement has no such text).     *)
(* Python's None is the value None below; "" is the empty string.          *)
(*                                                                         *)
(* JCLParser._normalize_jcl works on the characters of the raw lines: there*)
(* a line is a sequence of one-character strings.                          *)
(***************************************************************************)
EXTENDS Naturals, Sequences, FiniteSets, TLC

VARIABLES
    pc,                 \* "load", "parse", "parsed", "ready" (resolver built),
                        \* "resolved", "raised"; "normalize", "normalized";
                        \* "main", "grouped", "done"
    io_error,           \* the exception open()/read() raises, None when they succeed
    error_log,          \* the records written with logger.error
    raised,             \* an exception has left JCLParser.__init__
    content,            \* _normalize_jcl: the raw lines, content.split('\n')
    cleaned_lines,      \* _normalize_jcl: the list it returned
    lines,              \* the logical statements the parser loop has consumed
    current_step_name,  \* _parse_lines: the step the next DD belongs to
    steps,              \* JCLParser.steps, in insertion order
    src,                \* history: for every stored DD, its position in lines
    group_rows,         \* the sibling rows given to AttributeResolver
    dsn_map,            \* AttributeResolver.dsn_map
    target_dsn,         \* the argument of the last resolve call
    result,             \* what the last resolve call returned
    inputs0,            \* history: the model, the rows and the index as they
                        \* were when the resolver was constructed
    sheet,              \* main: the rows the row source supplies for one script name
    real_path,          \* main: jcl_path_map.get(jcl_name), None when absent
    groups,             \* main: groups[jcl_name], the row records of the script
    target_pos,         \* main: how many target rows the loop has passed
    updates_buffer      \* main: the updates produced for the row sink

vars == <<pc, io_error, error_log, raised, content, cleaned_lines, lines,
          current_step_name, steps, src, group_rows, dsn_map, target_dsn,
          result, inputs0, sheet, real_path, groups, target_pos, updates_buffer>>

\* the variables of the file read, of the normalizer and of main
loadVars == <<io_error, error_log, raised>>

mainVars == <<sheet, real_path, groups, target_pos, updates_buffer>>

normVars == <<content, cleaned_lines>>

None == "<None>"

\* Number of logical statements of a script.
MaxLines == 4

(***************************************************************************)
(* Inputs: logical statements                                              *)
(***************************************************************************)
Stmt(name, op, pgm, dsn, disp, recfm, lrecl, blksize) ==
    [name |-> name, op |-> op, PGM |-> pgm, DSN |-> dsn, DISP |-> disp,
     RECFM |-> recfm, LRECL |-> lrecl, BLKSIZE |-> blksize]

Exec(name, pgm) == Stmt(name, "EXEC", pgm, <<>>, <<>>, <<>>, <<>>, <<>>)

DD(name, dsn, disp, recfm, lrecl, blksize) ==
    Stmt(name, "DD", <<>>, dsn, disp, recfm, lrecl, blksize)

\* //S1 EXEC PGM=SORT     //S1 EXEC PGM=PROG1     //S2 EXEC PGM=sort
StepStatements ==
    { Exec("S1", <<"SORT">>), Exec("S1", <<"PROG1">>), Exec("S2", <<"sort">>) }

\* //S1 EXEC PROC=MYPROC: no PGM= follows EXEC
OtherStatements == { Exec("S1", <<>>) }

DDStatements ==
    { \* //SYSPRINT DD SYSOUT=*
      DD("SYSPRINT", <<>>, <<>>, <<>>, <<>>, <<>>),
      \* //SORTIN DD DSN=A,DISP=SHR      //SORTIN DD DSN=B,DISP=SHR
      DD("SORTIN", <<"A">>, <<"SHR">>, <<>>, <<>>, <<>>),
      DD("SORTIN", <<"B">>, <<"SHR">>, <<>>, <<>>, <<>>),
      \* //SYSUT1 DD DSN=T,DISP=(NEW,CATLG),LRECL=50
      DD("SYSUT1", <<"T">>, <<"(", "NEW">>, <<>>, <<"50">>, <<>>),
      \* //sortout1 DD DSN=T,DISP=SHR,LRECL=100
      DD("sortout1", <<"T">>, <<"SHR">>, <<>>, <<"100">>, <<>>),
      \* //SYSUT2 DD DSN=T,DISP=(NEW,CATLG),RECFM=VB,LRECL=90
      DD("SYSUT2", <<"T">>, <<"(", "NEW">>, <<"VB">>, <<"90">>, <<>>),
      \* //SORTOUT DD DSN=T,DISP=OLD,DCB=(RECFM=FB,LRECL=80,BLKSIZE=800)
      DD("SORTOUT", <<"T">>, <<"OLD">>, <<"FB">>, <<"80">>, <<"800", ")">>) }

Statements == StepStatements \cup OtherStatements \cup DDStatements

(***************************************************************************)
(* Inputs: sibling rows (the rows of one script group)                     *)
(***************************************************************************)
Row(dataset, recfm, lrecl, blksize) ==
    [dataset |-> dataset, recfm_val |-> recfm, lrecl_val |-> lrecl,
     blksize_val |-> blksize]

RowT == Row("T", "", "", "")

RowA == Row("A", "FB", "100", "1000")

RowB == Row("B", "VB", "200", "2000")

RowLists == { <<>>, <<RowA>>, <<RowB>>, <<RowT, RowA>>, <<RowA, RowB>> }

Targets == { "T" }

(***************************************************************************)
(* String helpers                                                          *)
(***************************************************************************)
\* str.upper() on the identifiers of the statements above
Upper(s) ==
    CASE s = "sort"     -> "SORT"
      [] s = "sortout1" -> "SORTOUT1"
      [] OTHER          -> s

\* text that can follow a prefix inside a DD name
NameTails == { "", "1", "2", "IN", "OUT" }

\* str.startswith
StartsWith(s, prefix) == \E t \in NameTails : s = prefix \o t

RECURSIVE Join(_)
Join(toks) == IF toks = <<>> THEN "" ELSE Head(toks) \o Join(Tail(toks))

IsParen(tok) == tok \in { "(", ")" }

\* the truth value of a str-or-None
Truthy(v) == v # None /\ v # ""

\* JCLParser._extract_param: the text after KEY= with the parentheses removed,
\* None when no text follows KEY=
_extract_param(line, key) ==
    IF line[key] = <<>> THEN None
    ELSE Join(SelectSeq(line[key], LAMBDA tok : ~IsParen(tok)))

\* StepMatch with a fault: every EXEC statement starts a step
StepMatch_AnyExec(line) == line.op = "EXEC"

\* re_step: //name EXEC PGM=<program>
StepMatch(line) == line.op = "EXEC" /\ line.PGM # <<>>

\* re_dd: //name DD ...
DDMatch(line) == line.op = "DD"

(***************************************************************************)
(* The ordered mapping self.steps: a sequence of entries in insertion      *)
(* order; assigning an existing key keeps its position.                    *)
(***************************************************************************)
HasKey(d, k) == \E i \in 1..Len(d) : d[i].name = k

IndexOf(d, k) == CHOOSE i \in 1..Len(d) : d[i].name = k

\* DictSet with a fault: an existing key keeps its value
DictSet_KeepsFirst(d, k, v) ==
    IF HasKey(d, k) THEN d ELSE Append(d, [name |-> k] @@ v)

\* DictSet with a fault: an existing key is removed and entered again at the end
DictSet_MovesToEnd(d, k, v) ==
    Append(SelectSeq(d, LAMBDA e : e.name # k), [name |-> k] @@ v)

DictSet(d, k, v) ==
    IF HasKey(d, k)
    THEN [d EXCEPT ![IndexOf(d, k)] = [name |-> k] @@ v]
    ELSE Append(d, [name |-> k] @@ v)

(***************************************************************************)
(* AttributeResolver                                                       *)
(***************************************************************************)
SORT_PROGRAMS == { "SORT", "ICEMAN", "DFSORT", "SYNCSORT", "IEBGENER", "ICEGENER" }

EmptyMap == [k \in {} |-> None]

\* the index with a fault: the first row of a dataset name is kept
RECURSIVE DsnMap_FirstWins(_)
DsnMap_FirstWins(rows) ==
    IF rows = <<>> THEN EmptyMap
    ELSE LET n    == Len(rows)
             r    == rows[n]
             rest == DsnMap_FirstWins(SubSeq(rows, 1, n - 1))
         IN  IF Truthy(r.dataset) /\ r.dataset \notin DOMAIN rest
             THEN [k \in (DOMAIN rest) \cup {r.dataset} |->
                      IF k = r.dataset THEN r ELSE rest[k]]
             ELSE rest

\* {r['dataset']: r for r in group_rows if r['dataset']}: a later row with
\* the same dataset replaces the earlier one
RECURSIVE DsnMap(_)
DsnMap(rows) ==
    IF rows = <<>> THEN EmptyMap
    ELSE LET n    == Len(rows)
             r    == rows[n]
             rest == DsnMap(SubSeq(rows, 1, n - 1))
         IN  IF Truthy(r.dataset)
             THEN [k \in (DOMAIN rest) \cup {r.dataset} |->
                      IF k = r.dataset THEN r ELSE rest[k]]
             ELSE rest

NoDict ==
    [Z |-> None, AA |-> None, AB |-> None, AC |-> None,
     META |-> [STEP |-> None, PGM |-> None, DD |-> None], STATUS |-> None]

\* the pair (result dict, status text) that resolve returns; none = TRUE
\* when the first component is None
Return(dict, status) == [none |-> FALSE, dict |-> dict, status |-> status]

ReturnNone(status) == [none |-> TRUE, dict |-> NoDict, status |-> status]

NoCall == [none |-> TRUE, dict |-> NoDict, status |-> ""]

\* inputs0 before a resolver exists
NoInputs == [steps |-> <<>>, group_rows |-> <<>>, dsn_map |-> EmptyMap]

\* "no valid STEP found in the JCL"
NoStepsReason == "no valid STEP in JCL"

\* "the Dataset was not found in the JCL"
NotFoundReason == "Dataset not found in JCL"

\* The labels written to the Z and STATUS fields, in English: "reference only"
\* / "done(reference)", "explicitly defined" / "done(explicit)", and
\* "done(inherited)" (the Z of an inherited result is the source dataset).
LabelReference == "reference only"

StatusReference == "done(reference)"

LabelExplicit == "explicitly defined"

StatusExplicit == "done(explicit)"

StatusInherited == "done(inherited)"

is_output(dd_name) == StartsWith(dd_name, "SORTOUT") \/ dd_name = "SYSUT2"

\* next((dd for dd in step_data["DDS"] if dd["DSN"] == target_dsn), None),
\* as an index into DDS; 0 when there is none
TargetDD(dds, target) ==
    IF \E j \in 1..Len(dds) : dds[j].DSN = target
    THEN CHOOSE j \in 1..Len(dds) :
            /\ dds[j].DSN = target
            /\ \A k \in 1..(j - 1) : dds[k].DSN # target
    ELSE 0

\* InputDDs with a fault: the output definitions are not filtered out
InputDDs_Unfiltered(dds) == dds

\* [d for d in step_data["DDS"] if not is_output(d["DD"])]
InputDDs(dds) == SelectSeq(dds, LAMBDA d : ~is_output(d.DD))

\* meta_info with a fault: the DD name is that of the first definition of the step
MetaInfo_FirstDD(step, dd) ==
    [STEP |-> step.name, PGM |-> step.PGM, DD |-> step.DDS[1].DD]

\* meta_info = {"STEP": step_name, "PGM": pgm, "DD": dd_name}
MetaInfo(step, dd) == [STEP |-> step.name, PGM |-> step.PGM, DD |-> dd.DD]

FallbackResult(step, dd) ==
    Return([Z |-> LabelReference, AA |-> dd.RECFM, AB |-> dd.LRECL, AC |-> dd.BLKSIZE,
            META |-> MetaInfo(step, dd), STATUS |-> StatusReference], "reference found")

\* target_dd.get("BLKSIZE", ""): the key BLKSIZE is always present in attrs,
\* so the default is never used
ExplicitResult(step, dd) ==
    Return([Z |-> LabelExplicit, AA |-> dd.RECFM, AB |-> dd.LRECL, AC |-> dd.BLKSIZE,
            META |-> MetaInfo(step, dd), STATUS |-> StatusExplicit], LabelExplicit)

InheritedResult(step, dd, source_dsn, src_row) ==
    Return([Z |-> source_dsn, AA |-> src_row.recfm_val, AB |-> src_row.lrecl_val,
            AC |-> src_row.blksize_val,
            META |-> MetaInfo(step, dd), STATUS |-> StatusInherited], "attributes inherited")

\* the loop of resolve over jcl_parser.steps.items(), from step i on;
\* has_fb/fb is fallback_match
RECURSIVE ResolveLoop(_, _, _, _, _, _)
ResolveLoop(model, map, target, i, has_fb, fb) ==
    IF i > Len(model)
    THEN IF has_fb THEN fb ELSE ReturnNone(NotFoundReason)
    ELSE LET step == model[i]
             j    == TargetDD(step.DDS, target)
         IN  IF j = 0
             THEN ResolveLoop(model, map, target, i + 1, has_fb, fb)
             ELSE LET dd     == step.DDS[j]
                      fb2    == IF has_fb THEN fb ELSE FallbackResult(step, dd)
                      inputs == InputDDs(step.DDS)
                  IN  IF step.PGM \in SORT_PROGRAMS /\ is_output(dd.DD)
                      THEN IF Truthy(dd.LRECL) /\ Truthy(dd.RECFM)
                           THEN ExplicitResult(step, dd)
                           ELSE IF inputs # <<>> /\ inputs[1].DSN \in DOMAIN map
                                THEN InheritedResult(step, dd, inputs[1].DSN,
                                                     map[inputs[1].DSN])
                                ELSE ResolveLoop(model, map, target, i + 1, TRUE, fb2)
                      ELSE ResolveLoop(model, map, target, i + 1, TRUE, fb2)

\* resolve with a fault: the guard on an empty model is missing
resolve_NoStepsGuard(model, map, target) ==
    ResolveLoop(model, map, target, 1, FALSE, NoCall)

\* AttributeResolver.resolve
resolve(model, map, target) ==
    IF model = <<>>
    THEN ReturnNone(NoStepsReason)
    ELSE ResolveLoop(model, map, target, 1, FALSE, NoCall)

(***************************************************************************)
(* JCLParser._parse_lines: one action per iteration of the loop            *)
(***************************************************************************)
\* the exceptions open() and read() raise on a path that cannot be read
IOErrors == { "FileNotFoundError", "PermissionError" }

\* the state of the parser, the resolver and the log before anything ran
Idle ==
    /\ error_log = <<>>
    /\ raised = FALSE
    /\ cleaned_lines = <<>>
    /\ lines = <<>>
    /\ current_step_name = None
    /\ steps = <<>>
    /\ src = <<>>
    /\ group_rows = <<>>
    /\ dsn_map = EmptyMap
    /\ target_dsn = None
    /\ result = NoCall
    /\ inputs0 = NoInputs
    /\ groups = <<>>
    /\ target_pos = 0
    /\ updates_buffer = <<>>

Init ==
    /\ pc = "load"
    /\ io_error \in { None } \cup IOErrors
    /\ content = <<>>
    /\ sheet = <<>>
    /\ real_path = None
    /\ Idle

\* except Exception as e, narrowed by a fault to the missing file
ExceptClause_FileNotFoundOnly(exc) == exc = "FileNotFoundError"

\* except Exception as e: every exception of open() and read() is caught
ExceptClause(exc) == exc \in IOErrors

\* the file was read and normalized: the statement loop starts
Load ==
    /\ pc = "load"
    /\ io_error = None
    /\ pc' = "parse"
    /\ UNCHANGED <<loadVars, normVars, lines, current_step_name, steps, src,
                   group_rows, dsn_map, target_dsn, result, inputs0, mainVars>>

\* open() or read() raises: the handler logs the failure and the constructor
\* returns with self.steps as __init__ left it; an exception the handler does
\* not catch leaves the constructor
LoadFails ==
    /\ pc = "load"
    /\ io_error # None
    /\ IF ExceptClause(io_error)
       THEN /\ error_log' = Append(error_log, [level |-> "ERROR", exc |-> io_error])
            /\ pc' = "parsed"
            /\ UNCHANGED raised
       ELSE /\ raised' = TRUE
            /\ pc' = "raised"
            /\ UNCHANGED error_log
    /\ UNCHANGED <<io_error, normVars, lines, current_step_name, steps, src,
                   group_rows, dsn_map, target_dsn, result, inputs0, mainVars>>

\* SkipsDD with a fault: a DD statement without a DSN is recorded too
SkipsDD_Never(dsn) == FALSE

\* if not dsn: continue
SkipsDD(dsn) == ~Truthy(dsn)

\* the statement is a DD statement that the loop body records
RecordsDD(line) ==
    /\ ~StepMatch(line)
    /\ current_step_name # None
    /\ DDMatch(line)
    /\ ~SkipsDD(_extract_param(line, "DSN"))

\* attrs
Attrs(line) ==
    [DD      |-> Upper(line.name),
     DSN     |-> _extract_param(line, "DSN"),
     RECFM   |-> _extract_param(line, "RECFM"),
     LRECL   |-> _extract_param(line, "LRECL"),
     BLKSIZE |-> _extract_param(line, "BLKSIZE")]

\* append with a fault: the new definition is put in front
AppendDD_InFront(dds, attrs) == <<attrs>> \o dds

\* self.steps[current_step_name]["DDS"].append(attrs)
AppendDD(dds, attrs) == Append(dds, attrs)

\* a statement matching the step pattern: register or overwrite the step
ParseStep(line) ==
    /\ pc = "parse"
    /\ Len(lines) < MaxLines
    /\ StepMatch(line)
    /\ lines' = Append(lines, line)
    /\ current_step_name' = line.name
    /\ steps' = DictSet(steps, line.name,
                        [PGM |-> Upper(Join(line.PGM)), DDS |-> <<>>])
    /\ src' = DictSet(src, line.name, [DDS |-> <<>>])
    /\ UNCHANGED <<pc, loadVars, normVars, group_rows, dsn_map, target_dsn,
                   result, inputs0, mainVars>>

\* a DD statement with a DSN inside a step: append to the current step
ParseDD(line) ==
    /\ pc = "parse"
    /\ Len(lines) < MaxLines
    /\ RecordsDD(line)
    /\ lines' = Append(lines, line)
    /\ LET i == IndexOf(steps, current_step_name)
       IN  /\ steps' = [steps EXCEPT ![i].DDS = AppendDD(@, Attrs(line))]
           /\ src' = [src EXCEPT ![i].DDS = Append(@, Len(lines) + 1)]
    /\ UNCHANGED <<pc, loadVars, normVars, current_step_name, group_rows,
                   dsn_map, target_dsn, result, inputs0, mainVars>>

\* the iteration with a fault: a statement that is not recognized ends the
\* current step
SkipLine_EndsStep(line) ==
    /\ pc = "parse"
    /\ Len(lines) < MaxLines
    /\ ~StepMatch(line)
    /\ ~RecordsDD(line)
    /\ lines' = Append(lines, line)
    /\ current_step_name' = IF DDMatch(line) THEN current_step_name ELSE None
    /\ UNCHANGED <<pc, loadVars, normVars, steps, src, group_rows, dsn_map,
                   target_dsn, result, inputs0, mainVars>>

\* every other statement: the iteration changes nothing
SkipLine(line) ==
    /\ pc = "parse"
    /\ Len(lines) < MaxLines
    /\ ~StepMatch(line)
    /\ ~RecordsDD(line)
    /\ lines' = Append(lines, line)
    /\ UNCHANGED <<pc, loadVars, normVars, current_step_name, steps, src,
                   group_rows, dsn_map, target_dsn, result, inputs0, mainVars>>

\* the loop ends: the parser is constructed
FinishParse ==
    /\ pc = "parse"
    /\ pc' = "parsed"
    /\ UNCHANGED <<loadVars, normVars, lines, current_step_name, steps, src,
                   group_rows, dsn_map, target_dsn, result, inputs0, mainVars>>

\* AttributeResolver.__init__
NewResolver(rows) ==
    /\ pc = "parsed"
    /\ pc' = "ready"
    /\ group_rows' = rows
    /\ dsn_map' = DsnMap(rows)
    /\ inputs0' = [steps |-> steps, group_rows |-> rows, dsn_map |-> DsnMap(rows)]
    /\ UNCHANGED <<loadVars, normVars, lines, current_step_name, steps, src,
                   target_dsn, result, mainVars>>

\* resolve with a fault: a found result is written back into the index of the
\* sibling rows
Resolve_CachesResult(target) ==
    /\ pc \in { "ready", "resolved" }
    /\ pc' = "resolved"
    /\ target_dsn' = target
    /\ result' = resolve(steps, dsn_map, target)
    /\ dsn_map' =
          IF result'.none THEN dsn_map
          ELSE [k \in (DOMAIN dsn_map) \cup { target } |->
                   IF k = target
                   THEN Row(target, result'.dict.AA, result'.dict.AB, result'.dict.AC)
                   ELSE dsn_map[k]]
    /\ UNCHANGED <<loadVars, normVars, lines, current_step_name, steps, src,
                   group_rows, inputs0, mainVars>>

\* resolver.resolve(target, parser)
Resolve(target) ==
    /\ pc \in { "ready", "resolved" }
    /\ pc' = "resolved"
    /\ target_dsn' = target
    /\ result' = resolve(steps, dsn_map, target)
    /\ UNCHANGED <<loadVars, normVars, lines, current_step_name, steps, src,
                   group_rows, dsn_map, inputs0, mainVars>>

Next ==
    \/ Load
    \/ LoadFails
    \/ \E line \in Statements : ParseStep(line)
    \/ \E line \in Statements : ParseDD(line)
    \/ \E line \in Statements : SkipLine(line)
    \/ FinishParse
    \/ \E rows \in RowLists : NewResolver(rows)
    \/ \E target \in Targets : Resolve(target)

Spec == Init /\ [][Next]_vars

(***************************************************************************)
(* The same parser and resolver on scripts of the utility programs, with   *)
(* the rows of a group resolved for two datasets.                          *)
(***************************************************************************)
UtilityStatements ==
    { \* //S1 EXEC PGM=SORT  //S1 EXEC PGM=KQCAMS  //S2 EXEC PGM=JEDGENER
      \* //S3 EXEC PGM=IEBGENER
      Exec("S1", <<"SORT">>), Exec("S1", <<"KQCAMS">>),
      Exec("S2", <<"JEDGENER">>), Exec("S3", <<"IEBGENER">>),
      \* //SORTIN DD DSN=A,DISP=SHR
      DD("SORTIN", <<"A">>, <<"SHR">>, <<>>, <<>>, <<>>),
      \* //SORTOUT DD DSN=A,DISP=OLD,RECFM=FB,LRECL=80
      DD("SORTOUT", <<"A">>, <<"OLD">>, <<"FB">>, <<"80">>, <<>>),
      \* //sortout1 DD DSN=T,DISP=SHR,LRECL=100
      DD("sortout1", <<"T">>, <<"SHR">>, <<>>, <<"100">>, <<>>),
      \* //SYSUT2 DD DSN=T,DISP=(NEW,CATLG),RECFM=VB,LRECL=90
      DD("SYSUT2", <<"T">>, <<"(", "NEW">>, <<"VB">>, <<"90">>, <<>>) }

UtilityTargets == { "T", "A" }

UtilityNext ==
    \/ Load
    \/ LoadFails
    \/ \E line \in UtilityStatements : ParseStep(line)
    \/ \E line \in UtilityStatements : ParseDD(line)
    \/ \E line \in UtilityStatements : SkipLine(line)
    \/ FinishParse
    \/ \E rows \in RowLists : NewResolver(rows)
    \/ \E target \in UtilityTargets : Resolve(target)

UtilitySpec == Init /\ [][UtilityNext]_vars

(***************************************************************************)
(* JCLParser._normalize_jcl, a function of the raw lines.  A line is a     *)
(* sequence of characters: "/", "*", ",", the blank, and letters that      *)
(* stand for any other text.                                               *)
(***************************************************************************)
\* Number of raw lines of a script text.
MaxRawLines == 4

\* Number of blanks at one place of a line boundary.
MaxBlanks == 1

IsSpace(c) == c = " "

RECURSIVE lstrip(_)
lstrip(line) ==
    IF line # <<>> /\ IsSpace(Head(line)) THEN lstrip(Tail(line)) ELSE line

RECURSIVE rstrip(_)
rstrip(line) ==
    IF line # <<>> /\ IsSpace(line[Len(line)])
    THEN rstrip(SubSeq(line, 1, Len(line) - 1))
    ELSE line

\* strip with a fault: the line is taken as it stands
strip_Nothing(line) == line

\* line.strip()
strip(line) == lstrip(rstrip(line))

\* str.startswith and str.endswith on lines
LineStartsWith(line, prefix) ==
    Len(line) >= Len(prefix) /\ SubSeq(line, 1, Len(prefix)) = prefix

\* the comma test with a fault: no line is taken as continued
LineEndsWith_Never(line, c) == FALSE

LineEndsWith(line, c) == line # <<>> /\ line[Len(line)] = c

Marker == << "/", "/" >>

CommentMarker == << "/", "/", "*" >>

\* Skipped with a fault: comment lines are kept
Skipped_KeepsComments(line) == line = <<>> \/ ~LineStartsWith(line, Marker)

\* if not line or line.startswith('//*') or not line.startswith('//'): continue
Skipped(line) ==
    \/ line = <<>>
    \/ LineStartsWith(line, CommentMarker)
    \/ ~LineStartsWith(line, Marker)

\* clean_segment with a fault: the marker stays
clean_segment_KeepsMarker(line) == line

\* re.sub(r'^//\s*', '', line)
clean_segment(line) ==
    IF LineStartsWith(line, Marker)
    THEN lstrip(SubSeq(line, Len(Marker) + 1, Len(line)))
    ELSE line

\* the return with a fault: a pending buffer is emitted as a last statement
ReturnCleaned_Flushes(buffer, cleaned) ==
    IF buffer # <<>> THEN Append(cleaned, buffer) ELSE cleaned

\* return cleaned_lines: a pending buffer is not emitted
ReturnCleaned(buffer, cleaned) == cleaned

\* the loop of _normalize_jcl over lines, from line i on
RECURSIVE NormalizeLoop(_, _, _, _)
NormalizeLoop(raw, i, buffer, cleaned) ==
    IF i > Len(raw)
    THEN ReturnCleaned(buffer, cleaned)
    ELSE LET line == strip(raw[i])
         IN  IF Skipped(line)
             THEN NormalizeLoop(raw, i + 1, buffer, cleaned)
             ELSE IF LineEndsWith(line, ",")
                  THEN IF buffer # <<>>
                       THEN NormalizeLoop(raw, i + 1, buffer \o clean_segment(line),
                                          cleaned)
                       ELSE NormalizeLoop(raw, i + 1, line, cleaned)
                  ELSE IF buffer # <<>>
                       THEN NormalizeLoop(raw, i + 1, <<>>,
                                          Append(cleaned, buffer \o clean_segment(line)))
                       ELSE NormalizeLoop(raw, i + 1, <<>>, Append(cleaned, line))

_normalize_jcl(raw) == NormalizeLoop(raw, 1, <<>>, <<>>)

(***************************************************************************)
(* Inputs of the normalizer                                                *)
(***************************************************************************)
RawLines ==
    { <<>>,                                        \* the empty line
      << " " >>,                                   \* a blank line
      << "/", "/", "*", "A", "," >>,               \* //*A,   comment
      << "/", "*" >>,                              \* /*      delimiter
      << "D", "," >>,                              \* D,      inline data
      << "/", "/" >>,                              \* //      null statement
      << "/", "/", "A" >>,                         \* //A
      << "/", "/", "A", "," >>,                    \* //A,
      << " ", "/", "/", " ", "B", ",", " " >>,     \*  // B,
      << "/", "/", " ", "C" >> }                   \* // C

\* content.split('\n') of a text of up to MaxRawLines lines
RawTexts == UNION { [1..n -> RawLines] : n \in 1..MaxRawLines }

\* A statement as its segments: every segment but the last ends with a comma.
\* //A,B,C
Segments == << << "/", "/", "A", "," >>, << "B", "," >>, << "C" >> >>

Blanks(n) == [k \in 1..n |-> " "]

RECURSIVE ConcatFrom(_, _, _)
ConcatFrom(segs, from, to) ==
    IF from > to THEN <<>> ELSE segs[from] \o ConcatFrom(segs, from + 1, to)

\* the places where the statement is cut into lines: a set of segment numbers
\* after which a line ends
Cuts == SUBSET (1..(Len(Segments) - 1))

\* for every line the blanks before the marker, between the marker and the
\* continued text, and at the end of the line
Spacings == [1..Len(Segments) -> [before : 0..MaxBlanks, mid : 0..MaxBlanks,
                                 after : 0..MaxBlanks]]

\* the n-th line of the statement cut at cuts: the segments after the
\* (n-1)-th cut up to the n-th cut
LineEnds(cuts) == cuts \cup { Len(Segments) }

NthEnd(cuts, n) ==
    CHOOSE e \in LineEnds(cuts) : Cardinality({ f \in LineEnds(cuts) : f <= e }) = n

WrittenLine(cuts, sp, n) ==
    LET from == IF n = 1 THEN 1 ELSE NthEnd(cuts, n - 1) + 1
        text == ConcatFrom(Segments, from, NthEnd(cuts, n))
    IN  Blanks(sp[n].before)
        \o (IF n = 1 THEN text ELSE Marker \o Blanks(sp[n].mid) \o text)
        \o Blanks(sp[n].after)

\* the statement written across Cardinality(cuts) + 1 lines
Written(cuts, sp) ==
    [n \in 1..(Cardinality(cuts) + 1) |-> WrittenLine(cuts, sp, n)]

WrittenTexts == { Written(cuts, sp) : cuts \in Cuts, sp \in Spacings }

\* the text of the file, split into lines, is handed to _normalize_jcl
NormInit ==
    /\ pc = "normalize"
    /\ io_error = None
    /\ content \in RawTexts \cup WrittenTexts
    /\ sheet = <<>>
    /\ real_path = None
    /\ Idle

\* normalized_lines = self._normalize_jcl(raw_content)
Normalize ==
    /\ pc = "normalize"
    /\ pc' = "normalized"
    /\ cleaned_lines' = _normalize_jcl(content)
    /\ UNCHANGED <<loadVars, content, lines, current_step_name, steps, src,
                   group_rows, dsn_map, target_dsn, result, inputs0, mainVars>>

NormNext == Normalize

NormSpec == NormInit /\ [][NormNext]_vars

(***************************************************************************)
(* main: the rows of one script name from the row source, the group built  *)
(* from them, and the updates produced for the row sink.  A cell of the    *)
(* record-format column is None (NoneCell) or the characters of str(cell). *)
(***************************************************************************)
DATA_START_ROW == 108415

NoneCell == << None >>

\* the script name all rows of the group share
JclName == "J"

SheetRow(jcl_name, dataset, recfm, lrecl, blksize) ==
    [jcl_name |-> jcl_name, dataset |-> dataset, recfm |-> recfm,
     lrecl |-> lrecl, blksize |-> blksize]

\* a row that ends before the record-format column
ShortRow == [jcl_name |-> JclName]

\* len(row) < max(COL_JCL_NAME, COL_DATASET, COL_RECFM)
IsShort(row) == "recfm" \notin DOMAIN row

\* the suffix test without the removal: a fault that keeps "0.0" as it is
RemoveSuffix_Keeps(s) == s

\* if recfm_str.endswith(".0"): recfm_str = recfm_str[:-2]
RemoveSuffix(s) ==
    IF Len(s) >= 2 /\ SubSeq(s, Len(s) - 1, Len(s)) = << ".", "0" >>
    THEN SubSeq(s, 1, Len(s) - 2)
    ELSE s

\* recfm_str = str(recfm_val).strip() if recfm_val is not None else ""
recfm_str(cell) ==
    Join(RemoveSuffix(IF cell # NoneCell THEN strip(cell) ELSE <<>>))

\* the record main appends to groups[jcl_name] for the row_counter-th row
RowRecord(row, row_counter) ==
    [row_idx       |-> row_counter + DATA_START_ROW - 1,
     dataset       |-> row.dataset,
     recfm_val     |-> recfm_str(row.recfm),
     lrecl_val     |-> row.lrecl,
     blksize_val   |-> row.blksize,
     needs_process |-> (recfm_str(row.recfm) = "0" \/ recfm_str(row.recfm) = "")]

\* for row in ws_reader.iter_rows(...): short rows and rows without a script
\* name are passed over
RECURSIVE GroupRows(_, _)
GroupRows(rows, n) ==
    IF n = 0 THEN <<>>
    ELSE LET before == GroupRows(rows, n - 1)
             row    == rows[n]
         IN  IF IsShort(row) THEN before
             ELSE IF ~Truthy(row.jcl_name) THEN before
             ELSE Append(before, RowRecord(row, n))

\* target_rows = [r for r in rows if r['needs_process']]
target_rows == SelectSeq(groups, LAMBDA r : r.needs_process)

\* safe_val = lambda v: v if v else ""
safe_val(v) == IF Truthy(v) THEN v ELSE ""

\* the entry appended to updates_buffer
Update(target, d) ==
    [row       |-> target.row_idx,
     vals_attr |-> << safe_val(d.Z), safe_val(d.AA), safe_val(d.AB), safe_val(d.AC) >>,
     vals_meta |-> << d.STATUS, JclName, safe_val(d.META.STEP),
                      safe_val(d.META.PGM), safe_val(d.META.DD) >>]

\* cells of the record-format column
Cell_Empty == <<>>

Cell_F == << "F" >>

Cell_V_Padded == << " ", "V", " " >>

Cell_Zero == << "0" >>

Cell_ZeroPadded == << " ", "0", " " >>

Cell_ZeroFloat == << "0", ".", "0" >>

Cell_F_Float == << "F", ".", "0" >>

Cell_ZeroBlankFloat == << "0", " ", ".", "0" >>

Cell_DoubleFloat == << "0", ".", "0", ".", "0" >>

Sheets ==
    { <<>>,
      \* A and T both without a record format
      << SheetRow(JclName, "A", Cell_Empty, "", ""),
         SheetRow(JclName, "T", NoneCell, None, None) >>,
      \* A known, T a numeric placeholder
      << SheetRow(JclName, "A", Cell_F, "100", "1000"),
         SheetRow(JclName, "T", Cell_ZeroFloat, "0", "0") >>,
      \* a row without dataset name, two rows for A, T to be resolved
      << SheetRow(JclName, "", Cell_F, "9", "90"),
         SheetRow(JclName, "A", Cell_F, "100", "1000"),
         SheetRow(JclName, "A", Cell_V_Padded, "200", "2000"),
         SheetRow(JclName, "T", Cell_Zero, "", "") >>,
      \* two rows for A the other way round, a row without dataset to resolve
      << SheetRow(JclName, "A", Cell_V_Padded, "200", "2000"),
         SheetRow(JclName, "A", Cell_F_Float, "100", "1000"),
         SheetRow(JclName, None, Cell_Empty, "", ""),
         SheetRow(JclName, "T", Cell_ZeroPadded, "", "") >>,
      \* a row without script name and a row of known format: nothing to do
      << SheetRow("", "T", Cell_Empty, "", ""),
         SheetRow(JclName, "T", Cell_F_Float, "80", "800") >>,
      \* a short row, then values that only look like placeholders
      << ShortRow,
         SheetRow(JclName, "A", Cell_ZeroBlankFloat, "", ""),
         SheetRow(JclName, "T", Cell_DoubleFloat, "", "") >>,
      \* T first, then its source
      << SheetRow(JclName, "T", Cell_Empty, "", ""),
         SheetRow(None, "A", Cell_Zero, "", ""),
         SheetRow(JclName, "A", Cell_Zero, "300", "3000") >> }

Paths == { None, "J.jcl" }

MainStatements ==
    { \* //S1 EXEC PGM=SORT     //S2 EXEC PGM=PROG1
      Exec("S1", <<"SORT">>), Exec("S2", <<"PROG1">>),
      \* //SORTOUT DD DSN=A,DISP=OLD,RECFM=FB,LRECL=80
      DD("SORTOUT", <<"A">>, <<"OLD">>, <<"FB">>, <<"80">>, <<>>),
      \* //SORTIN DD DSN=A,DISP=SHR
      DD("SORTIN", <<"A">>, <<"SHR">>, <<>>, <<>>, <<>>),
      \* //sortout1 DD DSN=T,DISP=SHR,LRECL=100
      DD("sortout1", <<"T">>, <<"SHR">>, <<>>, <<"100">>, <<>>) }

MainInit ==
    /\ pc = "main"
    /\ io_error \in { None } \cup IOErrors
    /\ content = <<>>
    /\ sheet \in Sheets
    /\ real_path \in Paths
    /\ Idle

\* phase 1: the scan of the sheet fills groups[jcl_name]
ScanSheet ==
    /\ pc = "main"
    /\ pc' = "grouped"
    /\ groups' = GroupRows(sheet, Len(sheet))
    /\ UNCHANGED <<loadVars, normVars, lines, current_step_name, steps, src,
                   group_rows, dsn_map, target_dsn, result, inputs0, sheet,
                   real_path, target_pos, updates_buffer>>

\* phase 2: a group without target rows or without script file is passed over
SkipGroup ==
    /\ pc = "grouped"
    /\ (target_rows = <<>> \/ ~Truthy(real_path))
    /\ pc' = "done"
    /\ UNCHANGED <<loadVars, normVars, lines, current_step_name, steps, src,
                   group_rows, dsn_map, target_dsn, result, inputs0, mainVars>>

\* phase 2: jcl_cache[jcl_name] = JCLParser(real_path)
OpenScript ==
    /\ pc = "grouped"
    /\ target_rows # <<>>
    /\ Truthy(real_path)
    /\ pc' = "load"
    /\ UNCHANGED <<loadVars, normVars, lines, current_step_name, steps, src,
                   group_rows, dsn_map, target_dsn, result, inputs0, mainVars>>

\* the loop body with a fault: a found result is written into the row record
\* of the target, which the index shares
ProcessTarget_WritesBack ==
    /\ pc \in { "ready", "resolved" }
    /\ target_pos < Len(target_rows)
    /\ LET target == target_rows[target_pos + 1]
           r      == resolve(steps, dsn_map, target.dataset)
       IN  /\ target_dsn' = target.dataset
           /\ result' = r
           /\ updates_buffer' = IF r.none THEN updates_buffer
                                ELSE Append(updates_buffer, Update(target, r.dict))
           /\ dsn_map' =
                 IF r.none \/ target.dataset \notin DOMAIN dsn_map THEN dsn_map
                 ELSE [dsn_map EXCEPT ![target.dataset].recfm_val = r.dict.AA,
                                      ![target.dataset].lrecl_val = r.dict.AB,
                                      ![target.dataset].blksize_val = r.dict.AC]
    /\ target_pos' = target_pos + 1
    /\ pc' = "resolved"
    /\ UNCHANGED <<loadVars, normVars, lines, current_step_name, steps, src,
                   group_rows, inputs0, sheet, real_path, groups>>

\* for target in target_rows: resolve, and append an update when a result
\* was found
ProcessTarget ==
    /\ pc \in { "ready", "resolved" }
    /\ target_pos < Len(target_rows)
    /\ LET target == target_rows[target_pos + 1]
           r      == resolve(steps, dsn_map, target.dataset)
       IN  /\ target_dsn' = target.dataset
           /\ result' = r
           /\ updates_buffer' = IF r.none THEN updates_buffer
                                ELSE Append(updates_buffer, Update(target, r.dict))
    /\ target_pos' = target_pos + 1
    /\ pc' = "resolved"
    /\ UNCHANGED <<loadVars, normVars, lines, current_step_name, steps, src,
                   group_rows, dsn_map, inputs0, sheet, real_path, groups>>

\* the loop over target_rows ends
FinishGroup ==
    /\ pc \in { "ready", "resolved" }
    /\ target_pos = Len(target_rows)
    /\ pc' = "done"
    /\ UNCHANGED <<loadVars, normVars, lines, current_step_name, steps, src,
                   group_rows, dsn_map, target_dsn, result, inputs0, mainVars>>

MainNext ==
    \/ ScanSheet
    \/ SkipGroup
    \/ OpenScript
    \/ Load
    \/ LoadFails
    \/ \E line \in MainStatements : ParseStep(line)
    \/ \E line \in MainStatements : ParseDD(line)
    \/ \E line \in MainStatements : SkipLine(line)
    \/ FinishParse
    \/ NewResolver(groups)
    \/ ProcessTarget
    \/ FinishGroup

MainSpec == MainInit /\ [][MainNext]_vars

(***************************************************************************)
(* JCLParser._load_and_parse as a whole: the statements the loop of        *)
(* _parse_lines consumes are the lines _normalize_jcl returned.  In these  *)
(* texts a word (an identifier, a keyword with its "=", a value) is one    *)
(* element of a line.                                                      *)
(***************************************************************************)
ScriptLines ==
    { << "/", "/", "A", "," >>,                                        \* //A,
      << "/", "/", "S2", " ", "EXEC", " ", "PGM=", "SORT" >>,          \* //S2 EXEC PGM=SORT
      << "/", "/", "S1", " ", "EXEC", " ", "PGM=", "PROG1", "," >>,    \* //S1 EXEC PGM=PROG1,
      << "/", "/", "SORTIN", " ", "DD", " ", "DSN=", "A", "," >>,      \* //SORTIN DD DSN=A,
      << "/", "/", "SORTOUT", " ", "DD", " ", "DSN=", "T" >>,          \* //SORTOUT DD DSN=T
      << "/", "/", " ", "DISP=", "SHR" >> }                            \* // DISP=SHR

ScriptTexts == UNION { [1..n -> ScriptLines] : n \in 1..MaxRawLines }

Keywords == { "PGM=", "DSN=", "DISP=", "RECFM=", "LRECL=", "BLKSIZE=" }

\* an element of the classes [A-Z0-9#@$] and \w
IsWord(tok) == tok \notin { " ", ",", "/", "*", "(", ")" } \cup Keywords

\* \S+ from position i on
RECURSIVE NonBlankRun(_, _)
NonBlankRun(line, i) ==
    IF i > Len(line) \/ IsSpace(line[i]) THEN <<>>
    ELSE << line[i] >> \o NonBlankRun(line, i + 1)

\* the position after \s* from position i on
RECURSIVE SkipBlanks(_, _)
SkipBlanks(line, i) ==
    IF i <= Len(line) /\ IsSpace(line[i]) THEN SkipBlanks(line, i + 1) ELSE i

\* the words and parentheses from position i on: [\w\.\$#@\(\)]+
RECURSIVE ValueRun(_, _)
ValueRun(line, i) ==
    IF i <= Len(line) /\ (IsWord(line[i]) \/ IsParen(line[i]))
    THEN << line[i] >> \o ValueRun(line, i + 1)
    ELSE <<>>

\* re.search(f"{key}=([\w\.\$#@\(\)]+)", line): the first KEY= that a value follows
ParamOf(line, key) ==
    LET K == { k \in 1..Len(line) : line[k] = key /\ ValueRun(line, k + 1) # <<>> }
    IN  IF K = {} THEN <<>>
        ELSE ValueRun(line, 1 + CHOOSE k \in K : \A l \in K : k <= l)

\* the keyword at position p is followed by a blank: EXEC\s+ and DD\s+
KeywordAt(line, p, word) ==
    /\ p + 1 <= Len(line)
    /\ line[p] = word
    /\ IsSpace(line[p + 1])

\* ^//(\S+)\s+ : the position of what follows the name and its blanks, 0 when
\* the line does not begin that way
AfterName(line) ==
    IF /\ LineStartsWith(line, Marker)
       /\ NonBlankRun(line, 3) # <<>>
       /\ 3 + Len(NonBlankRun(line, 3)) <= Len(line)
    THEN SkipBlanks(line, 3 + Len(NonBlankRun(line, 3)))
    ELSE 0

\* the step pattern with a fault: it is not anchored at the start of the line
\* and takes the word before EXEC as the name, (\w+)\s+EXEC\s+PGM=...
AsStatement_Unanchored(line) ==
    LET E == { p \in 3..Len(line) :
                 /\ KeywordAt(line, p, "EXEC")
                 /\ IsSpace(line[p - 1])
                 /\ IsWord(line[p - 2])
                 /\ SkipBlanks(line, p + 1) + 1 <= Len(line)
                 /\ line[SkipBlanks(line, p + 1)] = "PGM="
                 /\ IsWord(line[SkipBlanks(line, p + 1) + 1]) }
        p == CHOOSE q \in E : \A r \in E : q <= r
    IN  IF E # {}
        THEN Stmt(line[p - 2], "EXEC", << line[SkipBlanks(line, p + 1) + 1] >>,
                  ParamOf(line, "DSN="), ParamOf(line, "DISP="), ParamOf(line, "RECFM="),
                  ParamOf(line, "LRECL="), ParamOf(line, "BLKSIZE="))
        ELSE Stmt("", "", <<>>, <<>>, <<>>, <<>>, <<>>, <<>>)

\* what re_step, re_dd and _extract_param see in a line: the name after the
\* marker, the operation keyword after the name, the program after PGM= when
\* PGM= follows EXEC, and the value of every keyword parameter
AsStatement(line) ==
    LET p   == AfterName(line)
        q   == SkipBlanks(line, p + 1)
        op  == IF p = 0 THEN ""
               ELSE IF KeywordAt(line, p, "EXEC") THEN "EXEC"
               ELSE IF KeywordAt(line, p, "DD") THEN "DD"
               ELSE ""
        pgm == IF /\ op = "EXEC"
                  /\ q + 1 <= Len(line)
                  /\ line[q] = "PGM="
                  /\ IsWord(line[q + 1])
               THEN << line[q + 1] >>
               ELSE <<>>
    IN  Stmt(IF p = 0 THEN "" ELSE Join(NonBlankRun(line, 3)), op, pgm,
             ParamOf(line, "DSN="), ParamOf(line, "DISP="), ParamOf(line, "RECFM="),
             ParamOf(line, "LRECL="), ParamOf(line, "BLKSIZE="))

\* the text of the file, split into lines
ScriptInit ==
    /\ pc = "normalize"
    /\ io_error = None
    /\ content \in ScriptTexts
    /\ sheet = <<>>
    /\ real_path = None
    /\ Idle

\* self._parse_lines(normalized_lines)
StartParse ==
    /\ pc = "normalized"
    /\ pc' = "parse"
    /\ UNCHANGED <<loadVars, normVars, lines, current_step_name, steps, src,
                   group_rows, dsn_map, target_dsn, result, inputs0, mainVars>>

\* for line in lines: the next line of the list
MoreLines == Len(lines) < Len(cleaned_lines)

NextLine == AsStatement(cleaned_lines[Len(lines) + 1])

ScriptNext ==
    \/ Normalize
    \/ StartParse
    \/ MoreLines /\ ParseStep(NextLine)
    \/ MoreLines /\ ParseDD(NextLine)
    \/ MoreLines /\ SkipLine(NextLine)
    \/ ~MoreLines /\ FinishParse

ScriptSpec == ScriptInit /\ [][ScriptNext]_vars

(***************************************************************************)
(* Vocabulary of the properties.  These definitions restate the terms of   *)
(* the resolution rules on the parsed model; they do not use the           *)
(* resolver's own helpers.                                                 *)
(***************************************************************************)
\* JCLParser._extract_disp of the reference copy of the parser: the first word
\* after DISP= (inside optional parentheses), upper-cased, when it is one of
\* NEW, OLD, SHR, MOD.  Jcl.py stores no disposition; src remembers for every
\* stored data definition the statement it came from.
_extract_disp(line) ==
    IF line.DISP = <<>> THEN None
    ELSE LET toks == IF Head(line.DISP) = "(" THEN Tail(line.DISP) ELSE line.DISP
             word == IF toks = <<>> THEN "" ELSE Upper(Head(toks))
         IN  IF word \in { "NEW", "OLD", "SHR", "MOD" } THEN word ELSE None

\* "created by this JCL" / "done(created)" and "external dataset" /
\* "done(external)": the labels of rules 3 and 4
LabelSelfCreated == "created by this JCL"

StatusCreated == "done(created)"

LabelExternal == "external dataset"

StatusExternal == "done(external)"

Resolved == pc = "resolved"

\* the data definitions whose datasetName equals the target, as <<step, dd>>
\* positions in the model
Matches ==
    { m \in (1..Len(steps)) \X (1..MaxLines) :
        /\ m[2] <= Len(steps[m[1]].DDS)
        /\ steps[m[1]].DDS[m[2]].DSN = target_dsn }

\* step-then-DD order
Before(m, n) == m[1] < n[1] \/ (m[1] = n[1] /\ m[2] < n[2])

FirstOf(S) == CHOOSE m \in S : \A n \in S : n = m \/ Before(m, n)

StepOf(m) == steps[m[1]]

DDOf(m) == steps[m[1]].DDS[m[2]]

DispOf(m) == _extract_disp(lines[src[m[1]].DDS[m[2]]])

OutputSlot(name) == name = "SYSUT2" \/ \E t \in NameTails : name = "SORTOUT" \o t

SortOutput(m) == StepOf(m).PGM \in SORT_PROGRAMS /\ OutputSlot(DDOf(m).DD)

HasPair(m) == Truthy(DDOf(m).RECFM) /\ Truthy(DDOf(m).LRECL)

\* positions of the non-output data definitions of step i
InputsOf(i) == { k \in 1..Len(steps[i].DDS) : ~OutputSlot(steps[i].DDS[k].DD) }

FirstInput(i) == steps[i].DDS[CHOOSE k \in InputsOf(i) : \A l \in InputsOf(i) : k <= l]

\* the sibling-row index: the datasets of the rows, and for each the last row
Indexed(ds) == \E r \in 1..Len(group_rows) : group_rows[r].dataset = ds /\ ds # ""

SiblingRow(ds) ==
    group_rows[CHOOSE r \in 1..Len(group_rows) :
                  /\ group_rows[r].dataset = ds
                  /\ \A q \in (r + 1)..Len(group_rows) : group_rows[q].dataset # ds]

Inheritable(m) ==
    /\ SortOutput(m)
    /\ ~HasPair(m)
    /\ InputsOf(m[1]) # {}
    /\ Indexed(FirstInput(m[1]).DSN)

Explicit(m) == SortOutput(m) /\ HasPair(m)

\* the match yields an explicit or an inherited result
Yields(m) == Explicit(m) \/ Inheritable(m)

MetaOf(m) == [STEP |-> StepOf(m).name, PGM |-> StepOf(m).PGM, DD |-> DDOf(m).DD]

IsExplicit == ~result.none /\ result.dict.Z = LabelExplicit
                 /\ result.dict.STATUS = StatusExplicit

IsInherited == ~result.none /\ result.dict.STATUS = StatusInherited

(***************************************************************************)
(* Properties                                                              *)
(***************************************************************************)
\* C1: whenever some data definition referencing the target sits in a
\* sort-family step, has an output-slot ddName and carries both RECFM and
\* LRECL, resolve returns the provenance "explicit" with status done(explicit),
\* whatever other matches exist.
C1_ExplicitWhateverOtherMatches ==
    (Resolved /\ \E m \in Matches : Explicit(m)) => IsExplicit

\* C2: resolve returns a result of the fall-through rules (neither explicit
\* nor inherited) only when no data definition matching the target, in any
\* step, yields an explicit or an inherited result.
C2_FallThroughOnlyWhenNoMatchYields ==
    (Resolved /\ ~result.none /\ ~IsExplicit /\ ~IsInherited)
        => \A m \in Matches : ~Yields(m)

\* C3: when the first data definition referencing the target (in step-then-DD
\* order) is an output slot of a sort-family step that lacks RECFM or LRECL,
\* and the first non-output definition of that step references a dataset of
\* the sibling-row index, the result is inherited: provenance = that dataset,
\* RECFM/LRECL/BLKSIZE copied from its sibling row, metadata of the output
\* definition, status done(inherited).
C3_InheritsFromFirstInput ==
    (Resolved /\ Matches # {} /\ Inheritable(FirstOf(Matches)))
        => LET m   == FirstOf(Matches)
               ds  == FirstInput(m[1]).DSN
               row == SiblingRow(ds)
           IN  /\ ~result.none
               /\ result.dict = [Z |-> ds, AA |-> row.recfm_val,
                                 AB |-> row.lrecl_val, AC |-> row.blksize_val,
                                 META |-> MetaOf(m), STATUS |-> StatusInherited]

\* C3 witness: a sort step with two input definitions for different datasets,
\* both in the sibling index, and an output definition with LRECL but no RECFM;
\* the result is inherited.
C3_Witness ==
    /\ Resolved
    /\ Matches # {}
    /\ Inheritable(FirstOf(Matches))
    /\ DDOf(FirstOf(Matches)).LRECL # None
    /\ \E k, l \in InputsOf(FirstOf(Matches)[1]) :
          /\ k < l
          /\ StepOf(FirstOf(Matches)).DDS[k].DSN # StepOf(FirstOf(Matches)).DDS[l].DSN
          /\ Indexed(StepOf(FirstOf(Matches)).DDS[l].DSN)
    /\ IsInherited

\* C4: when no match yields an explicit or inherited result and some matching
\* definition has disposition NEW, the result is "created by this JCL" /
\* done(created) with the metadata of the first NEW match.
C4_CreatorWhenNoMatchYields ==
    (/\ Resolved
     /\ \A m \in Matches : ~Yields(m)
     /\ \E m \in Matches : DispOf(m) = "NEW")
        => LET c == FirstOf({ m \in Matches : DispOf(m) = "NEW" })
           IN  /\ ~result.none
               /\ result.dict.Z = LabelSelfCreated
               /\ result.dict.STATUS = StatusCreated
               /\ result.dict.META = MetaOf(c)

\* C5: when the target is referenced, no match yields an explicit or inherited
\* result and no matching definition has disposition NEW, the result is
\* "external dataset" / done(external) with the attributes and metadata of the
\* very first match.
C5_ExternalWhenNoCreator ==
    (/\ Resolved
     /\ Matches # {}
     /\ \A m \in Matches : ~Yields(m) /\ DispOf(m) # "NEW")
        => LET f == FirstOf(Matches)
           IN  /\ ~result.none
               /\ result.dict = [Z |-> LabelExternal, AA |-> DDOf(f).RECFM,
                                 AB |-> DDOf(f).LRECL, AC |-> DDOf(f).BLKSIZE,
                                 META |-> MetaOf(f), STATUS |-> StatusExternal]

\* C6: resolve returns None exactly when the model has no steps or no data
\* definition of any step references the target; a None result carries a
\* non-empty reason, which is the "no steps" reason exactly when the model has
\* no steps.
C6_AbsentExactlyOnMiss ==
    Resolved =>
        /\ result.none <=> (steps = <<>> \/ Matches = {})
        /\ result.none => /\ result.status # ""
                          /\ result.status = NoStepsReason <=> steps = <<>>

\* C6 witness: a model with a step and a data definition for another dataset;
\* the target is not found.
C6_Witness ==
    /\ Resolved
    /\ \E i \in 1..Len(steps) : steps[i].DDS # <<>>
    /\ Matches = {}
    /\ result.none
    /\ result.status = NotFoundReason

\* C7: an explicit result carries the RECFM and LRECL of an explicit
\* sort-output match, that definition's BLKSIZE or the empty string when it has
\* none, and the metadata of exactly that definition.
C7_ExplicitCarriesOwnAttributes ==
    (Resolved /\ IsExplicit)
        => \E m \in Matches :
              /\ Explicit(m)
              /\ result.dict.META = MetaOf(m)
              /\ result.dict.AA = DDOf(m).RECFM
              /\ result.dict.AB = DDOf(m).LRECL
              /\ result.dict.AC = IF DDOf(m).BLKSIZE = None THEN "" ELSE DDOf(m).BLKSIZE

\* C8: every data definition referencing the target is considered, in
\* step-then-DD order, also several of one step: the result is the one of the
\* first match, in that order, that yields an explicit or inherited result.
C8_EveryMatchConsidered ==
    (Resolved /\ \E m \in Matches : Yields(m))
        => LET f == FirstOf({ m \in Matches : Yields(m) })
           IN  /\ ~result.none
               /\ result.dict.META = MetaOf(f)
               /\ IF Explicit(f) THEN IsExplicit ELSE IsInherited

DsnNonEmpty ==
    \A i \in 1..Len(steps) : \A j \in 1..Len(steps[i].DDS) :
        steps[i].DDS[j].DSN # None /\ steps[i].DDS[j].DSN # ""

\* the statement of the iteration just executed
LastLine == lines[Len(lines)]

NoDsnStatementAddsNothing ==
    (/\ Len(lines') = Len(lines) + 1
     /\ LastLine'.op = "DD"
     /\ LastLine'.DSN = <<>>)
        => steps' = steps

\* C9: every data definition stored in the model has a non-empty datasetName,
\* and parsing a DD statement without a DSN leaves the model as it was.
C9_StoredDefinitionsHaveDsn == []DsnNonEmpty /\ [][NoDsnStatementAddsNothing]_vars

\* C9 witness: inside a step that already holds a data definition, a DD
\* statement without a DSN has just been parsed.
C9_Witness ==
    /\ pc = "parse"
    /\ lines # <<>>
    /\ LastLine.op = "DD"
    /\ LastLine.DSN = <<>>
    /\ current_step_name # None
    /\ \E i \in 1..Len(steps) : steps[i].DDS # <<>>

IsStepStatement(line) == line.op = "EXEC" /\ line.PGM # <<>>

NoStepStatementYet == \A n \in 1..Len(lines) : ~IsStepStatement(lines[n])

\* C10: a DD statement before any statement of the step pattern (EXEC PGM=) is
\* never recorded: every stored data definition comes from a statement that
\* follows a step statement, a script without a step statement (EXEC PROC=
\* only) gives a model with zero steps, and resolving against it returns None
\* with the "no steps" reason.
C10_NoDefinitionBeforeFirstStep ==
    /\ \A i \in 1..Len(steps) : \A j \in 1..Len(steps[i].DDS) :
          \E n \in 1..(src[i].DDS[j] - 1) : IsStepStatement(lines[n])
    /\ NoStepStatementYet
          => /\ steps = <<>>
             /\ Resolved => result.none /\ result.status = NoStepsReason

\* C10 witness: the script holds an EXEC statement without PGM= and a DD
\* statement for the target, no step statement; the target was resolved.
C10_Witness ==
    /\ Resolved
    /\ NoStepStatementYet
    /\ \E n \in 1..Len(lines) : lines[n].op = "EXEC"
    /\ \E n \in 1..Len(lines) : lines[n].op = "DD" /\ lines[n].DSN = <<target_dsn>>
    /\ result.none

\* the positions in lines of the step statements, and of those named name
StepStatementsAt == { n \in 1..Len(lines) : IsStepStatement(lines[n]) }

OccurrencesOf(name) == { n \in StepStatementsAt : lines[n].name = name }

LastOccurrence(name) == CHOOSE n \in OccurrencesOf(name) : \A m \in OccurrencesOf(name) : m <= n

\* the program a step statement names, upper-cased
ProgramOf(line) == Upper(Join(line.PGM))

\* the statement loop is running or has just ended: the model is the one
\* _parse_lines has built from the statements consumed so far
InParser == pc \in { "parse", "parsed" }

\* C11: after every statement of _parse_lines, when a step name appears in
\* several step statements the model holds one step under that name, with the
\* program of the last occurrence, and all its data definitions come from
\* statements after the last occurrence.
C11_LastOccurrenceOfStepWins ==
    InParser =>
        /\ \A i, j \in 1..Len(steps) : steps[i].name = steps[j].name => i = j
        /\ { steps[i].name : i \in 1..Len(steps) } = { lines[n].name : n \in StepStatementsAt }
        /\ \A i \in 1..Len(steps) :
              /\ OccurrencesOf(steps[i].name) # {}
              /\ steps[i].PGM = ProgramOf(lines[LastOccurrence(steps[i].name)])
              /\ Len(src[i].DDS) = Len(steps[i].DDS)
              /\ \A j \in 1..Len(steps[i].DDS) :
                    src[i].DDS[j] > LastOccurrence(steps[i].name)

\* C11 witness: a step name occurs in two step statements with different
\* programs, a data definition was recorded between them and another one after
\* the second.
C11_Witness ==
    InParser /\ \E n, m \in StepStatementsAt :
        /\ n < m
        /\ lines[n].name = lines[m].name
        /\ ProgramOf(lines[n]) # ProgramOf(lines[m])
        /\ \E k \in (n + 1)..(m - 1) : lines[k].op = "DD" /\ lines[k].DSN # <<>>
        /\ \E k \in (m + 1)..Len(lines) : lines[k].op = "DD" /\ lines[k].DSN # <<>>
        /\ \E i \in 1..Len(steps) : steps[i].name = lines[m].name /\ Len(steps[i].DDS) = 1

\* a DD statement with a DSN
IsDDWithDsn(line) == line.op = "DD" /\ line.DSN # <<>>

\* the step statement that most recently precedes position p; 0 when none does
GoverningStep(p) ==
    LET earlier == { n \in StepStatementsAt : n < p }
    IN  IF earlier = {} THEN 0 ELSE CHOOSE n \in earlier : \A m \in earlier : m <= n

\* the DD statements with a DSN whose step is in the model: they follow a step
\* statement that no later step statement of the same name has replaced
LiveDDsAt ==
    { p \in 1..Len(lines) :
        /\ IsDDWithDsn(lines[p])
        /\ GoverningStep(p) # 0
        /\ GoverningStep(p) = LastOccurrence(lines[GoverningStep(p)].name) }

\* C12: after every statement of _parse_lines,
\* every stored data definition is the one of its DD statement and sits
\* in the step of the step statement that most recently precedes that
\* statement; within a step the definitions are in statement order; and every
\* DD statement with a DSN that follows the (last) step statement of a step has
\* exactly one entry in the whole model.
C12_DefinitionsInStatementOrder ==
    InParser =>
        /\ \A i \in 1..Len(steps) :
              /\ Len(src[i].DDS) = Len(steps[i].DDS)
              /\ \A j \in 1..Len(steps[i].DDS) :
                    LET p == src[i].DDS[j]
                    IN  /\ IsDDWithDsn(lines[p])
                        /\ steps[i].DDS[j].DD = Upper(lines[p].name)
                        /\ steps[i].DDS[j].DSN = Join(SelectSeq(lines[p].DSN, LAMBDA t : ~IsParen(t)))
                        /\ GoverningStep(p) # 0
                        /\ lines[GoverningStep(p)].name = steps[i].name
              /\ \A j, k \in 1..Len(steps[i].DDS) : j < k => src[i].DDS[j] < src[i].DDS[k]
        /\ \A p \in LiveDDsAt :
              Cardinality({ m \in (1..Len(steps)) \X (1..MaxLines) :
                              /\ m[2] <= Len(src[m[1]].DDS)
                              /\ src[m[1]].DDS[m[2]] = p }) = 1

\* C12 witness: a step holds two data definitions for different datasets, and
\* a statement that left no entry stands between their two statements.
C12_Witness ==
    InParser /\ \E i \in 1..Len(steps) :
        /\ Len(steps[i].DDS) = 2
        /\ steps[i].DDS[1].DSN # steps[i].DDS[2].DSN
        /\ src[i].DDS[2] > src[i].DDS[1] + 1

\* dd.get("DISP") on a stored data definition
StoredDisp(dd) == IF "DISP" \in DOMAIN dd THEN dd.DISP ELSE None

\* C17: every stored data definition carries the disposition of its DD
\* statement: the first word after DISP= (inside optional parentheses),
\* upper-cased, when it is NEW, OLD, SHR or MOD, and None otherwise.
C17_DispositionRecorded ==
    \A i \in 1..Len(steps) : \A j \in 1..Len(steps[i].DDS) :
        StoredDisp(steps[i].DDS[j]) = DispOf(<<i, j>>)

\* C18: when open() or read() fails nothing is raised to the caller, the
\* failure is logged as an error, the model has zero steps, and every resolve
\* against it returns None with the "no steps" reason.
C18_UnreadableFileGivesEmptyModel ==
    io_error # None =>
        /\ ~raised
        /\ pc # "raised"
        /\ steps = <<>>
        /\ pc # "load" => error_log = << [level |-> "ERROR", exc |-> io_error] >>
        /\ Resolved => result.none /\ result.status = NoStepsReason

\* C18 witness: the file could not be opened for lack of permission, and a
\* dataset was resolved against the parser with a non-empty group of rows.
C18_Witness ==
    /\ io_error = "PermissionError"
    /\ Resolved
    /\ group_rows # <<>>
    /\ error_log # <<>>
    /\ result.none

\* C19: once the resolver is constructed, whatever resolve calls were made,
\* the model, the sibling rows and their index are what they were before the
\* first call, and the last call returned what it returns as a first call on
\* those inputs (so the order of the calls does not matter).
C19_ResolveLeavesInputsUnchanged ==
    pc \in { "ready", "resolved" } =>
        /\ steps = inputs0.steps
        /\ group_rows = inputs0.group_rows
        /\ dsn_map = inputs0.dsn_map
        /\ Resolved => result = resolve(inputs0.steps, inputs0.dsn_map, target_dsn)

\* C19 witness: the model defines both datasets, the group has rows, and
\* resolving A found a result although T, whose definition inherits from A's
\* row, can be resolved too.
C19_Witness ==
    /\ Resolved
    /\ target_dsn = "A"
    /\ ~result.none
    /\ group_rows # <<>>
    /\ \E i \in 1..Len(steps) : \E j \in 1..Len(steps[i].DDS) :
          steps[i].DDS[j].DSN = "T"
    /\ ~resolve(steps, dsn_map, "T").none

\* the programs of sort-family steps
SortFamily == { "SORT", "KQCAMS", "JEDGENER", "IEBGENER" }

\* C20: in a step running SORT, KQCAMS, JEDGENER or IEBGENER, the only data
\* definition referencing the target, when it is an output slot (SORTOUT*,
\* SYSUT2), resolves to "explicit" with both RECFM and LRECL, and to
\* "inherited" without them when the first input dataset of the step is a
\* sibling row.
C20_AllFourProgramsAreSortFamily ==
    (Resolved /\ Cardinality(Matches) = 1) =>
        LET m == FirstOf(Matches)
        IN  (StepOf(m).PGM \in SortFamily /\ OutputSlot(DDOf(m).DD)) =>
                /\ HasPair(m) => IsExplicit
                /\ (/\ ~HasPair(m)
                    /\ InputsOf(m[1]) # {}
                    /\ Indexed(FirstInput(m[1]).DSN)) => IsInherited

(***************************************************************************)
(* Vocabulary of the normalizer's properties, on the raw lines.            *)
(***************************************************************************)
Normalized == pc = "normalized"

NonBlank(l) == { k \in 1..Len(l) : l[k] # " " }

Least(S) == CHOOSE k \in S : \A m \in S : k <= m

Greatest(S) == CHOOSE k \in S : \A m \in S : m <= k

\* the line without the blanks at its two ends
Trim(l) ==
    IF NonBlank(l) = {} THEN <<>>
    ELSE SubSeq(l, Least(NonBlank(l)), Greatest(NonBlank(l)))

\* a trimmed line that begins with // and is no comment line (//*)
IsStatementLine(t) ==
    /\ Len(t) >= 2
    /\ t[1] = "/"
    /\ t[2] = "/"
    /\ ~(Len(t) >= 3 /\ t[3] = "*")

\* the retained lines of a text, trimmed, in order
Retained(raw) == SelectSeq([k \in 1..Len(raw) |-> Trim(raw[k])], IsStatementLine)

\* the text without its empty, comment and non-statement lines
WithoutDiscarded(raw) == SelectSeq(raw, LAMBDA l : IsStatementLine(Trim(l)))

EndsWithComma(t) == t # <<>> /\ t[Len(t)] = ","

\* a retained line without its // marker and the blanks after it
Unmarked(t) ==
    LET rest == SubSeq(t, 3, Len(t))
    IN  IF NonBlank(rest) = {} THEN <<>>
        ELSE SubSeq(rest, Least(NonBlank(rest)), Len(rest))

\* the retained lines that end a statement
Closers(R) == { e \in 1..Len(R) : ~EndsWithComma(R[e]) }

\* the first line of the run that the closer e ends
RunStart(R, e) ==
    LET earlier == { c \in Closers(R) : c < e }
    IN  IF earlier = {} THEN 1 ELSE Greatest(earlier) + 1

RECURSIVE UnmarkedFrom(_, _, _)
UnmarkedFrom(R, from, to) ==
    IF from > to THEN <<>> ELSE Unmarked(R[from]) \o UnmarkedFrom(R, from + 1, to)

\* the first line of the run unchanged, then the other lines without marker
StatementOf(R, e) == R[RunStart(R, e)] \o UnmarkedFrom(R, RunStart(R, e) + 1, e)

\* C13: the output holds one logical statement for every retained line that
\* does not end with a comma, in order: the first line of its run (the
\* comma-ended retained lines before it, back to the previous statement end)
\* unchanged, followed by the other lines of the run and the closing line, each
\* without its // marker and the blanks after it; a closing line with no run
\* before it is emitted unchanged.
C13_RunEmitsOneJoinedStatement ==
    Normalized =>
        LET R == Retained(content)
        IN  /\ Len(cleaned_lines) = Cardinality(Closers(R))
            /\ \A e \in Closers(R) :
                  cleaned_lines[Cardinality({ c \in Closers(R) : c <= e })]
                      = StatementOf(R, e)

\* C13 witness: two retained lines ending with a comma and a closing line, one
\* of them with blanks around the marker, gave one statement.
C13_Witness ==
    /\ Normalized
    /\ Len(Retained(content)) = 3
    /\ Closers(Retained(content)) = { 3 }
    /\ \E k \in 1..Len(content) : content[k] # Trim(content[k])
    /\ Len(cleaned_lines) = 1

\* C14: the output is the output for the text without its empty lines, comment
\* lines and lines not starting with //, wherever they stand, and every emitted
\* statement begins with // and is no comment line.
C14_DiscardedLinesHaveNoEffect ==
    Normalized =>
        /\ cleaned_lines = _normalize_jcl(WithoutDiscarded(content))
        /\ \A n \in 1..Len(cleaned_lines) : IsStatementLine(cleaned_lines[n])

\* C14 witness: a discarded line stands between a line ending with a comma and
\* the line that continues it, and a statement was emitted.
C14_Witness ==
    /\ Normalized
    /\ \E k \in 2..(Len(content) - 1) :
          /\ ~IsStatementLine(Trim(content[k]))
          /\ IsStatementLine(Trim(content[k - 1]))
          /\ EndsWithComma(Trim(content[k - 1]))
          /\ IsStatementLine(Trim(content[k + 1]))
    /\ cleaned_lines # <<>>

\* the last retained line ends with a comma: the text ends inside a statement
EndsPending(raw) ==
    /\ Retained(raw) # <<>>
    /\ EndsWithComma(Retained(raw)[Len(Retained(raw))])

\* the text up to its last retained line that ends a statement
ClosedPart(raw) ==
    LET closing == { k \in 1..Len(raw) :
                        /\ IsStatementLine(Trim(raw[k]))
                        /\ ~EndsWithComma(Trim(raw[k])) }
    IN  IF closing = {} THEN <<>> ELSE SubSeq(raw, 1, Greatest(closing))

\* C15: when the text ends while a continuation is pending, the call returns
\* the output for the text before the pending lines: the pending lines are in
\* no statement (one statement per closing line), the statements before them
\* are as they are without them.
C15_PendingBufferDropped ==
    (Normalized /\ EndsPending(content))
        => /\ cleaned_lines = _normalize_jcl(ClosedPart(content))
           /\ Len(cleaned_lines) = Cardinality(Closers(Retained(content)))

\* C15 witness: a statement was emitted and the text ends with a pending line.
C15_Witness ==
    /\ Normalized
    /\ EndsPending(content)
    /\ cleaned_lines # <<>>

\* the statement of Segments as one line
WholeStatement == ConcatFrom(Segments, 1, Len(Segments))

\* C16: the statement written across one or more lines, cut after any of its
\* commas, with any number of blanks before the // marker, between the marker
\* and the continued text and at the end of each line, gives the one logical
\* statement it gives when written on a single line without blanks.
C16_SameStatementHoweverWritten ==
    (Normalized /\ content \in WrittenTexts) => cleaned_lines = << WholeStatement >>

\* C16 witness: the statement on three lines, the second with blanks before
\* the marker, after it and after the comma.
C16_Witness ==
    /\ Normalized
    /\ content \in WrittenTexts
    /\ Len(content) = 3
    /\ content[2] = << " ", "/", "/", " ", "B", ",", " " >>

(***************************************************************************)
(* The sibling rows of a script group, as main hands them to the resolver  *)
(***************************************************************************)
ResolverBuilt == pc \in { "ready", "resolved" }

\* the positions of the sibling rows that carry the dataset name ds
RowsNamed(ds) == { i \in 1..Len(group_rows) : group_rows[i].dataset = ds }

\* the dataset names of the sibling rows, None and "" left out
NamedDatasets ==
    { group_rows[i].dataset : i \in 1..Len(group_rows) } \ { None, "" }

LastRowNamed(ds) == group_rows[Greatest(RowsNamed(ds))]

\* C21: once the resolver is built, its index has exactly the non-empty
\* dataset names of the sibling rows as keys (no entry for a row without
\* dataset name), each key holds the last row in row order that carries the
\* name, and an inherited result has the RECFM/LRECL/BLKSIZE of the last
\* sibling row named like its provenance.
C21_LastRowOfANameIsTheSource ==
    ResolverBuilt =>
        /\ DOMAIN dsn_map = NamedDatasets
        /\ \A ds \in NamedDatasets : dsn_map[ds] = LastRowNamed(ds)
        /\ (Resolved /\ IsInherited) =>
              /\ result.dict.Z \in NamedDatasets
              /\ result.dict.AA = LastRowNamed(result.dict.Z).recfm_val
              /\ result.dict.AB = LastRowNamed(result.dict.Z).lrecl_val
              /\ result.dict.AC = LastRowNamed(result.dict.Z).blksize_val

\* an inherited result whose provenance names two sibling rows with different
\* attributes, in a group that also has a row without dataset name
C21_Witness ==
    /\ Resolved
    /\ IsInherited
    /\ \E i, j \in RowsNamed(result.dict.Z) :
          /\ i < j
          /\ group_rows[i].recfm_val # group_rows[j].recfm_val
          /\ group_rows[i].lrecl_val # group_rows[j].lrecl_val
    /\ \E i \in 1..Len(group_rows) : group_rows[i].dataset = ""

(***************************************************************************)
(* The rows of the row source and what main does with them                 *)
(***************************************************************************)
\* the rows of the sheet that belong to the script group
GroupedSheetRows ==
    { i \in 1..Len(sheet) :
         ~IsShort(sheet[i]) /\ sheet[i].jcl_name \notin { None, "" } }

RowIdx(i) == i + DATA_START_ROW - 1

SheetPos(row_idx) == (row_idx + 1) - DATA_START_ROW

\* the record format of a sheet row, trimmed and without a trailing ".0"
FormatOf(i) ==
    LET t == IF sheet[i].recfm = NoneCell THEN <<>> ELSE Trim(sheet[i].recfm)
        n == Len(t)
    IN  IF n >= 2 /\ t[n - 1] = "." /\ t[n] = "0" THEN SubSeq(t, 1, n - 2) ELSE t

\* the record format is empty or "0"
Unknown(i) == FormatOf(i) \in { <<>>, << "0" >> }

\* the rows resolve has been called for
Submitted == { target_rows[k].row_idx : k \in 1..target_pos }

\* the group's script file is known to the path lookup
ScriptFound == real_path \notin { None, "" }

\* C22: in a script group, resolve is called only for rows whose record
\* format, trimmed and without a trailing ".0", is empty or "0", and every
\* update belongs to such a row, so none is produced for a row with another
\* record format; when the pass over a group whose script file is found has
\* ended, resolve has been called for every such row of the group; and every
\* row of the group, whatever its record format, is among the sibling rows
\* the resolver was built from.
C22_ResolvedExactlyWhenFormatUnknown ==
    /\ \A idx \in Submitted :
          SheetPos(idx) \in GroupedSheetRows /\ Unknown(SheetPos(idx))
    /\ \A k \in 1..Len(updates_buffer) : updates_buffer[k].row \in Submitted
    /\ (pc = "done" /\ ScriptFound) =>
          \A i \in GroupedSheetRows : Unknown(i) => RowIdx(i) \in Submitted
    /\ ResolverBuilt =>
          \A i \in GroupedSheetRows :
             \E r \in 1..Len(group_rows) :
                /\ group_rows[r].row_idx = RowIdx(i)
                /\ group_rows[r].dataset = sheet[i].dataset

\* a row whose cell reads 0.0 was resolved by inheritance from a row of known
\* record format, and the only update is the one of the resolved row
C22_Witness ==
    /\ Resolved
    /\ IsInherited
    /\ ~Unknown(SheetPos(LastRowNamed(result.dict.Z).row_idx))
    /\ sheet[SheetPos(target_rows[target_pos].row_idx)].recfm = Cell_ZeroFloat
    /\ Len(updates_buffer) = 1
    /\ updates_buffer[1].row = target_rows[target_pos].row_idx

\* the sheet row a sibling row record was built from
SheetRowOf(r) == sheet[SheetPos(r.row_idx)]

\* a sibling row record holds what the row source supplied for it: the record
\* format trimmed and without a trailing ".0", the other cells unchanged
AsRead(r) ==
    /\ SheetPos(r.row_idx) \in GroupedSheetRows
    /\ r.dataset = SheetRowOf(r).dataset
    /\ r.recfm_val = Join(FormatOf(SheetPos(r.row_idx)))
    /\ r.lrecl_val = SheetRowOf(r).lrecl
    /\ r.blksize_val = SheetRowOf(r).blksize

\* the update produced for the sheet row with this index, if any
UpdatesOf(row_idx) ==
    { k \in 1..Len(updates_buffer) : updates_buffer[k].row = row_idx }

\* C28: during the pass over a group the rows of the group, the sibling rows
\* of the resolver and the rows in its index stay as they were read from the
\* row source, whatever has been resolved; an inherited result has the
\* attributes the row source supplied for the last row named like its
\* provenance, also when an update with other attributes was produced for
\* that row earlier in the pass.
C28_ResultsNeverWrittenBack ==
    /\ \A r \in 1..Len(groups) : AsRead(groups[r])
    /\ ResolverBuilt =>
          /\ group_rows = groups
          /\ \A ds \in DOMAIN dsn_map : AsRead(dsn_map[ds])
          /\ (Resolved /\ IsInherited) =>
                LET source == LastRowNamed(result.dict.Z)
                IN  /\ result.dict.AA = Join(FormatOf(SheetPos(source.row_idx)))
                    /\ result.dict.AB = SheetRowOf(source).lrecl
                    /\ result.dict.AC = SheetRowOf(source).blksize

\* the source row of an inherited result was itself resolved earlier in the
\* pass, with a record format other than the one the row source supplied
C28_Witness ==
    /\ Resolved
    /\ IsInherited
    /\ LET source == LastRowNamed(result.dict.Z)
       IN  /\ source.needs_process
           /\ \E k \in UpdatesOf(source.row_idx) :
                 /\ k < Len(updates_buffer)
                 /\ updates_buffer[k].vals_attr[2] # result.dict.AA
                 /\ updates_buffer[k].vals_attr[2] = "FB"

\* C23: the matches are scanned in step-then-DD order and the scan returns
\* at the first one for which the explicit or the inheritance rule fires: a
\* match for which neither fires (a sort output without the pair whose step
\* has no input definition, or whose first input dataset is not indexed) is
\* passed over and the scan goes on to the next match; the provenance of an
\* inherited result is the dataset of the first input definition of the step,
\* never a later one; and without a firing match the result is neither
\* explicit nor inherited.
C23_ScanReturnsAtFirstFiringMatch ==
    Resolved =>
        IF \E m \in Matches : Yields(m)
        THEN LET f == FirstOf({ m \in Matches : Yields(m) })
             IN  /\ ~result.none
                 /\ result.dict.META = MetaOf(f)
                 /\ Explicit(f) => IsExplicit
                 /\ ~Explicit(f) =>
                       /\ IsInherited
                       /\ result.dict.Z = FirstInput(f[1]).DSN
        ELSE ~IsExplicit /\ ~IsInherited

\* a statement that matches neither the step pattern nor the DD pattern
Unrecognized(line) == ~StepMatch(line) /\ ~DDMatch(line)

\* the positions of the consumed statements that match the step pattern
RecognizedSteps == { p \in 1..Len(lines) : StepMatch(lines[p]) }

UnrecognizedStatementChangesNothing ==
    (Len(lines') = Len(lines) + 1 /\ Unrecognized(LastLine'))
        => steps' = steps /\ current_step_name' = current_step_name

\* the current step is the one of the last statement matching the step pattern
CurrentStepIsLastRecognized ==
    InParser =>
        current_step_name =
            IF RecognizedSteps = {} THEN None
            ELSE lines[Greatest(RecognizedSteps)].name

\* a stored definition whose statement follows an unrecognized EXEC statement
\* is stored under the last recognized step before that statement
AfterUnrecognizedExec(i, j) ==
    LET p == src[i].DDS[j]
    IN  \E q \in 1..(p - 1) :
           /\ lines[q].op = "EXEC"
           /\ ~StepMatch(lines[q])
           /\ \A s \in RecognizedSteps : s < q \/ s > p

DDsStayWithLastRecognizedStep ==
    InParser =>
        \A i \in 1..Len(steps) : \A j \in 1..Len(steps[i].DDS) :
            AfterUnrecognizedExec(i, j) =>
                LET before == { s \in RecognizedSteps : s < src[i].DDS[j] }
                IN  before # {} /\ steps[i].name = lines[Greatest(before)].name

\* C24: consuming a statement that matches neither the step pattern nor the
\* DD pattern leaves the model and the current step as they were; the
\* current step is always the step of the last recognized step statement,
\* and a data definition whose statement follows an unrecognized EXEC
\* statement is stored under the last recognized step before it.
C24_UnrecognizedStatementIsInert ==
    /\ [][UnrecognizedStatementChangesNothing]_vars
    /\ [](CurrentStepIsLastRecognized /\ DDsStayWithLastRecognizedStep)

\* a data definition stored under a step although an EXEC statement without
\* PGM= stands between the step statement and the DD statement
C24_Witness ==
    /\ InParser
    /\ \E i \in 1..Len(steps) : \E j \in 1..Len(steps[i].DDS) :
          AfterUnrecognizedExec(i, j)

\* the position of the first step statement that names the step
FirstOccurrence(name) == Least(OccurrencesOf(name))

\* the steps of the model stand in the order in which their names first
\* appeared in the script
StepsInFirstAppearanceOrder ==
    \A i, j \in 1..Len(steps) :
        i < j => FirstOccurrence(steps[i].name) < FirstOccurrence(steps[j].name)

\* a step whose name was registered again after another step had appeared
ReRegistered(i) ==
    \E j \in 1..Len(steps) :
        /\ i < j
        /\ LastOccurrence(steps[i].name) > FirstOccurrence(steps[j].name)

\* the result of the fallback rule
IsReference ==
    ~result.none /\ result.dict.Z = LabelReference /\ result.dict.STATUS = StatusReference

\* the steps that hold a data definition referencing the target
MatchingSteps == { m[1] : m \in Matches }

FixedPairs ==
    { << LabelExplicit, StatusExplicit >>, << LabelReference, StatusReference >>,
      << LabelSelfCreated, StatusCreated >>, << LabelExternal, StatusExternal >> }

\* C27: the metadata of every non-absent result is that of a data definition
\* of the model which is stored under the named step, whose step runs the
\* named program and whose datasetName is the target; the status is the
\* inherited one exactly when the provenance is a dataset name of the sibling
\* index, and otherwise provenance and status are one of the fixed pairs.
C27_ResultNamesAStoredDefinition ==
    (Resolved /\ ~result.none) =>
        /\ \E m \in Matches : result.dict.META = MetaOf(m)
        /\ result.dict.STATUS = StatusInherited <=> result.dict.Z \in DOMAIN dsn_map
        /\ result.dict.STATUS # StatusInherited =>
              << result.dict.Z, result.dict.STATUS >> \in FixedPairs

\* an inherited result whose data definition is not the first of its step
C27_Witness ==
    /\ Resolved
    /\ IsInherited
    /\ result.dict.Z \in DOMAIN dsn_map
    /\ \E m \in Matches :
          /\ result.dict.META = MetaOf(m)
          /\ m[2] > 1
          /\ steps[m[1]].DDS[1].DD # DDOf(m).DD

\* C29: an inherited result never has the target itself as provenance: its
\* source is a dataset other than the target, also when input and output
\* definitions of a step reference the same dataset and the sibling rows
\* contain the row of the target.
C29_InheritedSourceIsNotTheTarget ==
    (Resolved /\ IsInherited) => result.dict.Z # target_dsn

\* the n-th retained line that does not end with a comma
NthCloser(R, n) ==
    CHOOSE e \in Closers(R) : Cardinality({ c \in Closers(R) : c <= e }) = n

\* the line s ends with the text t
HasSuffix(s, t) ==
    Len(s) >= Len(t) /\ SubSeq(s, Len(s) - Len(t) + 1, Len(s)) = t

\* C30: the normalizer emits as many statements as there are retained lines
\* that do not end with a comma; the n-th statement is the one closed by the
\* n-th such line: it ends with the text of that line (without the marker
\* when the line continues a run); and every statement begins with the //
\* marker.
C30_OneStatementPerClosingLine ==
    Normalized =>
        LET R == Retained(content)
        IN  /\ Len(cleaned_lines) = Cardinality(Closers(R))
            /\ \A n \in 1..Len(cleaned_lines) :
                  LET e == NthCloser(R, n)
                  IN  /\ SubSeq(cleaned_lines[n], 1, 2) = << "/", "/" >>
                      /\ HasSuffix(cleaned_lines[n],
                                   IF RunStart(R, e) = e THEN R[e] ELSE Unmarked(R[e]))

\* two statements from four raw lines: a run of two lines, a discarded line,
\* a single line
C30_Witness ==
    /\ Normalized
    /\ Len(content) = 4
    /\ Len(cleaned_lines) = 2
    /\ Len(Retained(content)) = 3
    /\ EndsWithComma(Retained(content)[1])
    /\ cleaned_lines[1] # cleaned_lines[2]

(***************************************************************************)
(* Statements that follow a comma-terminated line                          *)
(***************************************************************************)
\* the retained line e is a step or a DD statement by itself
IsStepLine(t) == StepMatch(AsStatement(t))

IsDDLine(t) == DDMatch(AsStatement(t))

\* the retained lines that directly follow a comma-terminated retained line
\* and are step or DD statements
Swallowed(R) ==
    { e \in 2..Len(R) : EndsWithComma(R[e - 1]) /\ (IsStepLine(R[e]) \/ IsDDLine(R[e])) }

\* the retained line e belongs to a run that is closed, and so to a statement
IsEmitted(R, e) == \E c \in Closers(R) : c >= e

\* the number of the statement the retained line e belongs to
StatementNo(R, e) == Cardinality({ c \in Closers(R) : c < e }) + 1

\* the first line of the run the retained line e belongs to
FirstOfRun(R, e) ==
    LET earlier == { c \in Closers(R) : c < e }
    IN  IF earlier = {} THEN 1 ELSE Greatest(earlier) + 1

\* the text of the run before the retained line e
Pending(R, e) == R[FirstOfRun(R, e)] \o UnmarkedFrom(R, FirstOfRun(R, e) + 1, e - 1)

\* the statement has the pending text and then the line without its marker
AppendedUnmarked(R, e) ==
    LET st == cleaned_lines[StatementNo(R, e)]
        b  == Pending(R, e)
    IN  /\ Len(st) >= Len(b) + Len(Unmarked(R[e]))
        /\ SubSeq(st, 1, Len(b)) = b
        /\ SubSeq(st, Len(b) + 1, Len(b) + Len(Unmarked(R[e]))) = Unmarked(R[e])

\* the statement a swallowed line belongs to is not that line
NotEmittedOnItsOwn(R, e) ==
    /\ FirstOfRun(R, e) < e
    /\ cleaned_lines[StatementNo(R, e)] # R[e]

\* the statement a swallowed step statement belongs to registers no step,
\* unless the first line of its run is a step statement
RegistersNoStepOfItsOwn(R, e) ==
    StepMatch(lines[StatementNo(R, e)]) => IsStepLine(R[FirstOfRun(R, e)])

\* when the statement a swallowed step statement belongs to registers a step,
\* the name of the step is the joined text up to its first blank: it lies in
\* the pending text when that has a blank, and otherwise it is the pending
\* text followed by the name of the swallowed statement, the program being
\* that statement's; the name always begins before the swallowed statement
NamedFromStartOfRun(R, e) ==
    LET st  == lines[StatementNo(R, e)]
        own == AsStatement(R[e])
        b   == Pending(R, e)
    IN  StepMatch(st) =>
           IF NonBlank(b) = 1..Len(b)
           THEN /\ st.name = Join(SubSeq(b, 3, Len(b))) \o own.name
                /\ st.name # own.name
                /\ st.PGM = own.PGM
           ELSE st.name = Join(SubSeq(b, 3, Least((1..Len(b)) \ NonBlank(b)) - 1))

\* The claim as stated: a step or DD statement that directly follows a
\* comma-terminated line is appended to the pending text without its marker,
\* is not emitted as a statement of its own, and, when it is a step
\* statement, no step is registered for it.
C25_StepAfterCommaNeverRegistered ==
    pc = "parsed" =>
        LET R == Retained(content)
        IN  \A e \in Swallowed(R) :
               IsEmitted(R, e) =>
                  /\ AppendedUnmarked(R, e)
                  /\ NotEmittedOnItsOwn(R, e)
                  /\ IsStepLine(R[e]) => RegistersNoStepOfItsOwn(R, e)

\* C25: a step or DD statement that directly follows a comma-terminated line
\* is appended to the pending text without its marker and is not emitted as a
\* statement of its own; a step statement swallowed this way registers
\* nothing by itself: when the statement it became part of matches the step
\* pattern, the registered step is named by the joined text up to its first
\* blank, a name from the lines before when they hold a blank, and otherwise
\* the text before the swallowed statement followed by its name, with the
\* swallowed statement's program.
C25_SwallowedStepNamedFromStartOfRun ==
    pc = "parsed" =>
        LET R == Retained(content)
        IN  \A e \in Swallowed(R) :
               IsEmitted(R, e) =>
                  /\ AppendedUnmarked(R, e)
                  /\ NotEmittedOnItsOwn(R, e)
                  /\ IsStepLine(R[e]) => NamedFromStartOfRun(R, e)

\* //A, followed by //S2 EXEC PGM=SORT: the model has a step A,S2 running
\* SORT and no step S2
C25_Witness ==
    /\ pc = "parsed"
    /\ LET R == Retained(content)
       IN  \E e \in Swallowed(R) :
              /\ IsEmitted(R, e)
              /\ IsStepLine(R[e])
              /\ ~IsStepLine(R[FirstOfRun(R, e)])
              /\ StepMatch(lines[StatementNo(R, e)])
              /\ HasKey(steps, lines[StatementNo(R, e)].name)
              /\ ~HasKey(steps, AsStatement(R[e]).name)

====
